---- MODULE Spec2Model ----
(***************************************************************************)
(* Model of main.py: the tourist-exploration service for Puno.  Three      *)
(* endpoints (/pois/<category>, /weather, /directions) run in concurrent   *)
(* request threads over two kinds of shared state: the module-level        *)
(* POI_CACHE and the per-function memoisation caches that timed_lru_cache  *)
(* creates.  Time is in seconds, ratings in tenths, coordinates on a small *)
(* integer grid.                                                           *)
(***************************************************************************)
EXTENDS Integers, Sequences, FiniteSets, TLC

VARIABLES
    now,          \* the caches' timer (time.monotonic), in seconds
    ticks,        \* number of clock advances so far (bounded)
    started,      \* number of requests accepted so far (bounded)
    memoPois,     \* the TTLCache inside timed_lru_cache(3600) around fetch_pois
    POI_CACHE,    \* the module-level TTLCache(maxsize=100, ttl=86400)
    poisReq,      \* per request thread: the /pois request it is handling
    lastPoiSet,   \* history: per category, the latest POI_CACHE[key] = pois
    lastMemoSet,  \* history: per category, the latest cache[key] = result
    apiKey,       \* OPENWEATHERMAP_API_KEY is set in the environment
    memoWeather,  \* the TTLCache inside timed_lru_cache(300) around fetch_weather
    weatherReq,   \* per request thread: the /weather request it is handling
    lastWeatherSet,     \* history: per coordinate, the latest cache[key] = result
    lastWeatherReturn,  \* history: per coordinate, the latest snapshot returned
    dirReq        \* per request thread: the /directions request it is handling

poisVars == <<memoPois, POI_CACHE, poisReq, lastPoiSet, lastMemoSet>>
weatherVars == <<memoWeather, weatherReq, lastWeatherSet, lastWeatherReturn>>
dirVars == <<dirReq>>

vars == <<now, ticks, started, apiKey, poisVars, weatherVars, dirVars>>

(***************************************************************************)
(* Bounds of the exploration.                                              *)
(***************************************************************************)
NumThreads == 2      \* request threads a specification with concurrency runs
MaxRequests == 2     \* requests it accepts
MaxTicks == 1        \* clock advances it makes
SeqRequests == 3     \* the same for a specification that serves one request at a time
SeqTicks == 2
CategoryRequests == 4
WeatherRequests == 3 \* /weather requests a specification accepts

Threads == 1..NumThreads

(***************************************************************************)
(* Program constants.                                                      *)
(***************************************************************************)
CACHE_MAXSIZE == 100
POI_TTL == 86400
POIS_MEMO_TTL == 3600
WEATHER_MEMO_TTL == 300
RATING_MIN == 35
RATING_MAX == 50
DEFAULT_NAME == "Sin nombre"
DEFAULT_ADDRESS == "Sin direccion"

\* the keys of the `queries` dictionary of fetch_pois
QueryCategories == {"hotel", "restaurant", "attraction"}

(***************************************************************************)
(* Inputs drawn by the exploration.                                        *)
(***************************************************************************)
\* categories a client asks for: one with a query, one without
RequestCategories == {"hotel", "casino"}
\* the ?rating= thresholds a client sends (tenths); 0 is the default
RatingParams == {0, 45}
\* the ?lat=&lon= positions a client sends (degrees)
UserLocations == {<<0, 0>>}
\* outcomes of round(random.uniform(3.5, 5.0), 1) the exploration draws
RatingDraws == {RATING_MIN, RATING_MAX}
\* the clock advances between two steps: one second, or one second short of a TTL
PoisTickSteps == {1, POIS_MEMO_TTL - 1, POI_TTL - 1}
\* the advances a specification with concurrency makes
RaceTickSteps == {POIS_MEMO_TTL - 1, POI_TTL - 1}
WeatherTickSteps == {WEATHER_MEMO_TTL - 1}
\* the category its clients ask for
RaceCategories == {"hotel"}
\* every category with a query, and the one without
AllCategories == QueryCategories \cup RequestCategories
\* the positions and thresholds sent to a specification about the ranking: a
\* latitude geopy rejects, and a threshold equal to a rating
RankLocations == {<<0, 0>>, <<91, 0>>}
RankRatings == {0, RATING_MAX}
\* the clock passes the memo's TTL and stays within the POI tier's
RankTickSteps == {POIS_MEMO_TTL}

(***************************************************************************)
(* cachetools.TTLCache: a sequence of links, least recently used first.    *)
(***************************************************************************)
HasLink(cache, key) == \E i \in 1..Len(cache) : cache[i].key = key

LinkOf(cache, key) == cache[CHOOSE i \in 1..Len(cache) : cache[i].key = key]

Without(cache, key) ==
    LET Other(l) == l.key # key IN SelectSeq(cache, Other)

\* TTLCache.__contains__: the link exists and timer() < link.expires
CacheContains(cache, key, t) == HasLink(cache, key) /\ t < LinkOf(cache, key).expires

\* TTLCache.__getitem__ finds a value (otherwise it raises KeyError)
CacheHit(cache, key, t) == HasLink(cache, key) /\ t < LinkOf(cache, key).expires

CacheValue(cache, key) == LinkOf(cache, key).value

\* TTLCache.__getitem__ moves the link to the most-recently-used end
CacheTouch(cache, key) ==
    IF HasLink(cache, key) THEN Append(Without(cache, key), LinkOf(cache, key)) ELSE cache

\* TTLCache.expire(time): drop every link with expires <= time
CacheExpire(cache, t) ==
    LET Live(l) == t < l.expires IN SelectSeq(cache, Live)

\* TTLCache.__setitem__: expire, make room (LRU first), store with expires = time + ttl
CacheSet(cache, key, value, t, ttl) ==
    LET live == CacheExpire(cache, t)
        room == IF ~HasLink(live, key) /\ Len(live) + 1 > CACHE_MAXSIZE
                THEN Tail(live) ELSE live
    IN  Append(Without(room, key), [key |-> key, value |-> value, expires |-> t + ttl])

\* a key that leaves the arguments out
MemoKeyOfNothing(args) == <<<<>>, "{}">>

\* timed_lru_cache: key = str(args) + str(kwargs); kwargs is always {} here
MemoKey(args) == <<args, "{}">>

\* the POI tier built with the ttl of line 26
PoiCacheStoreOneHour(cache, key, value, t) == CacheSet(cache, key, value, t, POIS_MEMO_TTL)

\* POI_CACHE[cache_key] = pois, on the TTLCache of line 27
PoiCacheStore(cache, key, value, t) == CacheSet(cache, key, value, t, POI_TTL)

\* fetch_pois: cache_key = f'pois_{category}'
PoiCacheKey(category) == <<"pois_", category>>

(***************************************************************************)
(* The Overpass provider: what requests.get / raise_for_status / json()    *)
(* can give fetch_pois.                                                    *)
(***************************************************************************)
NoTags == [t \in {} |-> ""]

Node(id, lat, lon, tags) ==
    [type |-> "node", id |-> id, hasCoord |-> TRUE, lat |-> lat, lon |-> lon,
     hasNodes |-> FALSE, nodes |-> {}, tags |-> tags]

Way(id, nodes, tags) ==
    [type |-> "way", id |-> id, hasCoord |-> FALSE, lat |-> 0, lon |-> 0,
     hasNodes |-> TRUE, nodes |-> nodes, tags |-> tags]

Relation(id, tags) ==
    [type |-> "relation", id |-> id, hasCoord |-> FALSE, lat |-> 0, lon |-> 0,
     hasNodes |-> FALSE, nodes |-> {}, tags |-> tags]

\* a named node, a named way over nodes 1 and 2, and the way's skeleton node
ElementsA ==
    << Node(1, 2, 2, ("name" :> "Hostal Uros") @@ ("addr:street" :> "Jr. Lima")),
       Way(10, {1, 2}, ("name" :> "Mirador Kuntur Wasi")),
       Node(2, 4, 0, NoTags) >>

\* a node whose name tag is empty, a way whose nodes are not in the response,
\* and a named relation
ElementsB ==
    << Node(3, 1, 1, ("name" :> "")),
       Way(11, {9}, ("name" :> "Plaza de Armas")),
       Relation(20, ("name" :> "Isla Taquile")) >>

\* one named node
ElementsC == << Node(1, 2, 2, ("name" :> "Hostal Uros")) >>

\* four named nodes: two at the same distance from the origin, one whose
\* latitude no point on Earth has, one nearer than the others
ElementsD ==
    << Node(31, 3, 4, ("name" :> "Hotel Libertador")),
       Node(32, 91, 0, ("name" :> "Hotel Polar")),
       Node(33, 3, -4, ("name" :> "Hotel Sillustani")),
       Node(34, 0, 1, ("name" :> "Hotel Titicaca")) >>

ElementLists == {ElementsA, ElementsB}

\* the decoded JSON body: an array, or an object whose 'elements' is absent,
\* null or a list
JsonBodies ==
    {[shape |-> "array", elements |-> "absent", list |-> <<>>],
     [shape |-> "object", elements |-> "absent", list |-> <<>>],
     [shape |-> "object", elements |-> "null", list |-> <<>>]}
    \cup {[shape |-> "object", elements |-> "list", list |-> l] : l \in ElementLists}

NoBody == [shape |-> "none", elements |-> "absent", list |-> <<>>]

\* requests.get raises Timeout or ConnectionError, raise_for_status raises
\* HTTPError on a non-2xx status, or the body is decoded
TransportFailures == {"timeout", "connection_error", "http_error"}

OverpassOutcomes ==
    {[kind |-> k, body |-> NoBody] : k \in TransportFailures}
    \cup {[kind |-> "ok", body |-> b] : b \in JsonBodies}

\* the smallest set with a failure and a success whose list the ratings vary
FewOutcomes ==
    {[kind |-> "timeout", body |-> NoBody],
     [kind |-> "ok", body |-> [shape |-> "object", elements |-> "list", list |-> ElementsC]]}

\* a response whose list calculate_routes has to reorder
RankOutcomes ==
    {[kind |-> "ok", body |-> [shape |-> "object", elements |-> "list", list |-> ElementsD]]}

\* the except requests.RequestException clauses
RaisesRequestException(outcome) == outcome.kind \in TransportFailures

(***************************************************************************)
(* fetch_pois, lines 133-166: the loop over data.get('elements', []).      *)
(***************************************************************************)
\* dict.get(key, default)
TagGet(tags, key, default) == IF key \in DOMAIN tags THEN tags[key] ELSE default

RECURSIVE Gcd(_, _)
Gcd(a, b) == IF b = 0 THEN a ELSE Gcd(b, a % b)

\* a coordinate pair lat = a/n, lon = b/n in lowest terms
Location(a, b, n) ==
    LET Abs(x) == IF x < 0 THEN -x ELSE x
        g == Gcd(Gcd(Abs(a), Abs(b)), n)
    IN  <<a \div g, b \div g, n \div g>>

\* the nodes of the response that are members of the way, in response order
MemberNodes(elements, way) ==
    LET Member(e) == e.type = "node" /\ e.id \in way.nodes
    IN  SelectSeq(elements, Member)

RECURSIVE SumLat(_)
SumLat(nodes) == IF nodes = <<>> THEN 0 ELSE Head(nodes).lat + SumLat(Tail(nodes))

RECURSIVE SumLon(_)
SumLon(nodes) == IF nodes = <<>> THEN 0 ELSE Head(nodes).lon + SumLon(Tail(nodes))

\* lines 136-145: the element's effect on the locals lat, lon.
\* "raise": an exception reaches the except clause of line 164;
\* "continue": line 145; "go on": control reaches line 147.
LocateElement(elements, e, st) ==
    IF e.type = "node" THEN
        IF e.hasCoord
        THEN [flow |-> "go on", bound |-> TRUE, loc |-> Location(e.lat, e.lon, 1)]
        ELSE [flow |-> "raise", bound |-> st.bound, loc |-> st.loc]
    ELSE IF e.type = "way" THEN
        IF ~e.hasNodes \/ \E i \in 1..Len(MemberNodes(elements, e)) :
                             ~MemberNodes(elements, e)[i].hasCoord
        THEN [flow |-> "raise", bound |-> st.bound, loc |-> st.loc]
        ELSE LET members == MemberNodes(elements, e) IN
             IF members # <<>>
             THEN [flow |-> "go on", bound |-> TRUE,
                   loc |-> Location(SumLat(members), SumLon(members), Len(members))]
             ELSE [flow |-> "continue", bound |-> st.bound, loc |-> st.loc]
    ELSE [flow |-> "go on", bound |-> st.bound, loc |-> st.loc]

\* lines 152-162: the poi dictionary
MakePoi(e, loc, category, rating) ==
    [name |-> TagGet(e.tags, "name", DEFAULT_NAME),
     location |-> loc,
     address |-> TagGet(e.tags, "addr:street", DEFAULT_ADDRESS),
     type |-> category,
     rating |-> rating,
     description |-> TagGet(e.tags, "description", ""),
     phone |-> TagGet(e.tags, "phone", ""),
     website |-> TagGet(e.tags, "website", ""),
     opening_hours |-> TagGet(e.tags, "opening_hours", ""),
     element |-> e.id]

\* line 149: the element is skipped as unnamed
SkipsName(name) == name = DEFAULT_NAME

\* one iteration of the loop: st = [pois, bound, loc]
ProcessElement(elements, i, st, category, ratings) ==
    LET e == elements[i]
        located == LocateElement(elements, e, st)
        kept == [pois |-> st.pois, bound |-> located.bound, loc |-> located.loc]
    IN  IF located.flow # "go on" THEN kept
        ELSE IF SkipsName(TagGet(e.tags, "name", DEFAULT_NAME)) THEN kept
        ELSE IF ~located.bound THEN kept   \* UnboundLocalError, caught at line 164
        ELSE [kept EXCEPT !.pois = Append(@, MakePoi(e, located.loc, category, ratings[i]))]

RECURSIVE ProcessFrom(_, _, _, _, _)
ProcessFrom(elements, i, st, category, ratings) ==
    IF i > Len(elements) THEN st.pois
    ELSE ProcessFrom(elements, i + 1,
                     ProcessElement(elements, i, st, category, ratings),
                     category, ratings)

\* lines 133-166 on a list of elements; ratings[i] is the draw made for element i
ParsePois(elements, category, ratings) ==
    ProcessFrom(elements, 1, [pois |-> <<>>, bound |-> FALSE, loc |-> <<0, 0, 1>>],
                category, ratings)

(***************************************************************************)
(* calculate_routes, lines 205-223.                                        *)
(***************************************************************************)
\* geopy rejects a latitude outside [-90, 90] with ValueError
LatitudeOk(a, n) == -90 * n <= a /\ a <= 90 * n

DistanceRaises(user, loc) == ~LatitudeOk(user[1], 1) \/ ~LatitudeOk(loc[1], loc[3])

\* round(geodesic(user, poi).kilometers, 2) in hundredths, on a plane where one
\* degree is one kilometre: the k with |k - 100 * d| least
Distance(user, loc) ==
    LET n == loc[3]
        dx == loc[1] - user[1] * n
        dy == loc[2] - user[2] * n
        sq == 40000 * (dx * dx + dy * dy)      \* (200 * d * n)^2
    IN  CHOOSE k \in 0..(100 * (dx * dx + dy * dy) + 1) :
            /\ (2 * k + 1) * (2 * k + 1) * n * n > sq
            /\ (k = 0 \/ (2 * k - 1) * (2 * k - 1) * n * n <= sq)

\* a sort that puts an entry before the entries of equal distance
RECURSIVE SortedInsertBeforeEqual(_, _)
SortedInsertBeforeEqual(routes, r) ==
    IF routes = <<>> THEN <<r>>
    ELSE IF Head(routes).distance < r.distance
         THEN <<Head(routes)>> \o SortedInsertBeforeEqual(Tail(routes), r)
         ELSE <<r>> \o routes

\* list.sort(key=...) is stable: insert after the entries that are not greater
RECURSIVE SortedInsert(_, _)
SortedInsert(routes, r) ==
    IF routes = <<>> THEN <<r>>
    ELSE IF Head(routes).distance <= r.distance
         THEN <<Head(routes)>> \o SortedInsert(Tail(routes), r)
         ELSE <<r>> \o routes

RECURSIVE SortRoutes(_)
SortRoutes(routes) ==
    IF routes = <<>> THEN <<>>
    ELSE SortedInsert(SortRoutes(SubSeq(routes, 1, Len(routes) - 1)), routes[Len(routes)])

RECURSIVE RoutesOf(_, _)
RoutesOf(user, pois) ==
    IF pois = <<>> THEN <<>>
    ELSE IF DistanceRaises(user, Head(pois).location)
         THEN RoutesOf(user, Tail(pois))
         ELSE <<[poi |-> Head(pois), distance |-> Distance(user, Head(pois).location)]>>
              \o RoutesOf(user, Tail(pois))

calculate_routes(user, pois) == SortRoutes(RoutesOf(user, pois))

\* a filter that keeps the ratings above the threshold only
FilterAboveRating(pois, rating) ==
    LET Keep(poi) == poi.rating > rating IN SelectSeq(pois, Keep)

\* get_pois line 248
FilterByRating(pois, rating) ==
    LET Keep(poi) == poi.rating >= rating IN SelectSeq(pois, Keep)

(***************************************************************************)
(* The /pois/<category> request threads.                                   *)
(***************************************************************************)
\* a list as fetch_pois returns it; `born` records when the provider was asked
\* for it (-1: it does not come from the provider)
EmptyList == [pois |-> <<>>, born |-> -1]

NoStore == [at |-> -1, value |-> EmptyList]

IdlePois ==
    [pc |-> "idle", category |-> "", rating |-> 0, user |-> <<0, 0>>,
     result |-> EmptyList, status |-> 0, routes |-> <<>>, error |-> "",
     \* history of the call, for the properties
     requests |-> 0, provider |-> "none", returned |-> FALSE, age |-> -1,
     memoFresh |-> FALSE, memoExpect |-> EmptyList, afterCall |-> FALSE,
     poiFresh |-> FALSE, readFresh |-> FALSE, poiExpect |-> EmptyList,
     populated |-> FALSE, raced |-> FALSE]

\* the age of a returned list since its provider fetch
AgeOf(value, t) == IF value.born < 0 THEN -1 ELSE t - value.born

\* a store made less than ttl seconds before t
FreshStore(store, t, ttl) == store.at >= 0 /\ t < store.at + ttl

\* get_pois lines 240-245: parse the query string and call fetch_pois
StartPois(t, category, rating, user, limit) ==
    /\ poisReq[t].pc \in {"idle", "done"}
    /\ started < limit
    /\ started' = started + 1
    /\ poisReq' = [poisReq EXCEPT ![t] =
                      [IdlePois EXCEPT !.pc = "memo_get", !.category = category,
                                       !.rating = rating, !.user = user]]
    /\ UNCHANGED <<now, ticks, memoPois, POI_CACHE, lastPoiSet, lastMemoSet>>
    /\ UNCHANGED <<apiKey, weatherVars, dirVars>>

\* a check that lets every category through
AnyCategory(category) == TRUE

\* fetch_pois line 114
ValidCategory(category) == category \in QueryCategories

\* get_pois lines 248-251, once fetch_pois has returned `value` at time t
PoisResponse(r, value, t) ==
    [r EXCEPT !.pc = "done", !.result = value, !.returned = TRUE,
              !.age = AgeOf(value, t), !.status = 200,
              !.routes = calculate_routes(r.user, FilterByRating(value.pois, r.rating))]

\* a handler that filters the list it was given in place
PoisFilteredInPlace(value, rating, user) ==
    [value EXCEPT !.pois = FilterByRating(@, rating)]

\* get_pois lines 248-251 on the list object fetch_pois returned, which the
\* caches hold too: the comprehension and calculate_routes read it and build
\* new lists, routes.sort sorts the new list, and the object is as it was
PoisAfterResponse(value, rating, user) == value

\* the cache once the list object `value`, which its links refer to, has
\* become `after`
Aliased(cache, value, after) ==
    [i \in 1..Len(cache) |->
        IF cache[i].value = value THEN [cache[i] EXCEPT !.value = after] ELSE cache[i]]

\* get_pois lines 252-254, when fetch_pois raises
PoisError(r, exception) == [r EXCEPT !.pc = "done", !.status = 500, !.error = exception]

\* wrapper lines 44-47 (a hit returns to get_pois), and lines 114-116 of
\* fetch_pois on a miss
MemoGet(t) ==
    LET r == poisReq[t]
        key == MemoKey(<<r.category>>)
        seen == [r EXCEPT !.memoFresh = FreshStore(lastMemoSet[r.category], now, POIS_MEMO_TTL),
                          !.memoExpect = lastMemoSet[r.category].value,
                          !.afterCall = FreshStore(lastMemoSet[r.category], now, POI_TTL)]
        hit == CacheHit(memoPois, key, now)
        value == CacheValue(memoPois, key)
    IN  /\ r.pc = "memo_get"
        /\ memoPois' =
              IF hit
              THEN Aliased(CacheTouch(memoPois, key), value,
                           PoisAfterResponse(value, r.rating, r.user))
              ELSE CacheTouch(memoPois, key)
        /\ POI_CACHE' =
              IF hit
              THEN Aliased(POI_CACHE, value, PoisAfterResponse(value, r.rating, r.user))
              ELSE POI_CACHE
        /\ poisReq' = [poisReq EXCEPT ![t] =
              IF hit
              THEN PoisResponse(seen, value, now)
              ELSE IF ~ValidCategory(r.category)
              THEN [seen EXCEPT !.pc = "memo_set", !.result = EmptyList]
              ELSE [seen EXCEPT !.pc = "poi_contains"]]
        /\ UNCHANGED <<now, ticks, started, lastPoiSet, lastMemoSet>>
        /\ UNCHANGED <<apiKey, weatherVars, dirVars>>

\* the other threads that have missed POI_CACHE for the category and not stored yet
Populating(t, category) ==
    {u \in Threads \ {t} : poisReq[u].category = category
                           /\ poisReq[u].pc \in {"overpass", "poi_set"}}

\* line 119: if cache_key in POI_CACHE
PoiContains(t) ==
    LET r == poisReq[t]
        present == CacheContains(POI_CACHE, PoiCacheKey(r.category), now)
        racing == IF present THEN {} ELSE Populating(t, r.category)
    IN  /\ r.pc = "poi_contains"
        /\ poisReq' = [u \in Threads |->
              IF u = t
              THEN [r EXCEPT !.pc = IF present THEN "poi_get" ELSE "overpass",
                             !.poiFresh = FreshStore(lastPoiSet[r.category], now, POI_TTL),
                             !.raced = racing # {}]
              ELSE IF u \in racing THEN [poisReq[u] EXCEPT !.raced = TRUE]
              ELSE poisReq[u]]
        /\ UNCHANGED <<now, ticks, started, memoPois, POI_CACHE, lastPoiSet, lastMemoSet>>
        /\ UNCHANGED <<apiKey, weatherVars, dirVars>>

\* line 120: return POI_CACHE[cache_key]; a KeyError passes through the wrapper
\* (it is raised inside its except clause) to get_pois lines 252-254
PoiGet(t) ==
    LET r == poisReq[t]
        key == PoiCacheKey(r.category)
        seen == [r EXCEPT !.readFresh = FreshStore(lastPoiSet[r.category], now, POI_TTL),
                          !.poiExpect = lastPoiSet[r.category].value]
    IN  /\ r.pc = "poi_get"
        /\ POI_CACHE' = CacheTouch(POI_CACHE, key)
        /\ poisReq' = [poisReq EXCEPT ![t] =
              IF CacheHit(POI_CACHE, key, now)
              THEN [seen EXCEPT !.pc = "memo_set", !.result = CacheValue(POI_CACHE, key)]
              ELSE PoisError(seen, "KeyError")]
        /\ UNCHANGED <<now, ticks, started, memoPois, lastPoiSet, lastMemoSet>>
        /\ UNCHANGED <<apiKey, weatherVars, dirVars>>

\* what the provider answered, for the properties
ProviderLabel(outcome) ==
    IF outcome.kind # "ok" THEN "transport_failure"
    ELSE IF outcome.body.shape # "object" THEN "not_an_object"
    ELSE IF outcome.body.elements = "absent" THEN "no_elements"
    ELSE IF outcome.body.elements = "null" THEN "elements_not_a_list"
    ELSE "elements"

\* lines 122-166: the request to Overpass and the loop over the elements
OverpassRequest(t, outcome, ratings) ==
    LET r == poisReq[t]
        asked == [r EXCEPT !.requests = @ + 1, !.provider = ProviderLabel(outcome)]
    IN  /\ r.pc = "overpass"
        /\ poisReq' = [poisReq EXCEPT ![t] =
              IF RaisesRequestException(outcome)
              THEN \* lines 129-131
                   [asked EXCEPT !.pc = "memo_set", !.result = EmptyList]
              ELSE IF outcome.body.shape # "object"
              THEN \* line 134: data.get raises AttributeError
                   PoisError(asked, "AttributeError")
              ELSE IF outcome.body.elements = "null"
              THEN \* line 134: iterating None raises TypeError
                   PoisError(asked, "TypeError")
              ELSE [asked EXCEPT !.pc = "poi_set",
                                 !.result = [pois |-> ParsePois(outcome.body.list,
                                                                r.category, ratings),
                                             born |-> now]]]
        /\ UNCHANGED <<now, ticks, started, memoPois, POI_CACHE, lastPoiSet, lastMemoSet>>
        /\ UNCHANGED <<apiKey, weatherVars, dirVars>>

\* line 168: POI_CACHE[cache_key] = pois
PoiSet(t) ==
    LET r == poisReq[t] IN
    /\ r.pc = "poi_set"
    /\ POI_CACHE' = PoiCacheStore(POI_CACHE, PoiCacheKey(r.category), r.result, now)
    /\ lastPoiSet' = [lastPoiSet EXCEPT ![r.category] = [at |-> now, value |-> r.result]]
    /\ poisReq' = [poisReq EXCEPT ![t] = [r EXCEPT !.pc = "memo_set", !.populated = TRUE]]
    /\ UNCHANGED <<now, ticks, started, memoPois, lastMemoSet>>
    /\ UNCHANGED <<apiKey, weatherVars, dirVars>>

\* wrapper lines 49-50: cache[key] = result; return result (to get_pois, whose
\* lines 248-251 then work on the list the caches hold)
MemoSet(t) ==
    LET r == poisReq[t] IN
    /\ r.pc = "memo_set"
    /\ memoPois' = Aliased(CacheSet(memoPois, MemoKey(<<r.category>>), r.result, now,
                                    POIS_MEMO_TTL),
                           r.result, PoisAfterResponse(r.result, r.rating, r.user))
    /\ POI_CACHE' = Aliased(POI_CACHE, r.result,
                            PoisAfterResponse(r.result, r.rating, r.user))
    /\ lastMemoSet' = [lastMemoSet EXCEPT ![r.category] = [at |-> now, value |-> r.result]]
    /\ poisReq' = [poisReq EXCEPT ![t] = PoisResponse(r, r.result, now)]
    /\ UNCHANGED <<now, ticks, started, lastPoiSet>>
    /\ UNCHANGED <<apiKey, weatherVars, dirVars>>

(***************************************************************************)
(* The /weather request threads.                                           *)
(***************************************************************************)
\* Python's round(): n/d to the nearest integer, ties to the even one
RoundHalfEven(n, d) ==
    LET q == n \div d
        r == n - q * d
    IN  IF 2 * r < d THEN q
        ELSE IF 2 * r > d THEN q + 1
        ELSE IF q % 2 = 0 THEN q ELSE q + 1

\* str.capitalize() on the descriptions the provider sends
Capitalize(text) ==
    CASE text = "cielo claro" -> "Cielo claro"
      [] text = "LLUVIA ligera" -> "Lluvia ligera"
      [] OTHER -> text

\* the decoded body of a 2xx answer: temperatures in tenths of a degree, the
\* wind in tenths of m/s; has* tell which fields the object carries
WeatherBody(hasWeather, hasMain, hasWind, description, temp, feels, speed) ==
    [hasWeather |-> hasWeather, hasMain |-> hasMain, hasWind |-> hasWind,
     description |-> description, temp |-> temp, feels_like |-> feels,
     humidity |-> 40, speed |-> speed, icon |-> "01d"]

WeatherBodies ==
    {WeatherBody(TRUE, TRUE, TRUE, "cielo claro", 125, 115, 50),
     WeatherBody(TRUE, TRUE, TRUE, "LLUVIA ligera", -35, -62, 25),
     WeatherBody(FALSE, TRUE, TRUE, "", 125, 115, 50),
     WeatherBody(TRUE, FALSE, TRUE, "cielo claro", 0, 0, 50),
     WeatherBody(TRUE, TRUE, FALSE, "cielo claro", 125, 115, 0)}

NoWeatherBody == WeatherBody(FALSE, FALSE, FALSE, "", 0, 0, 0)

WeatherOutcomes ==
    {[kind |-> k, body |-> NoWeatherBody] : k \in TransportFailures}
    \cup {[kind |-> "ok", body |-> b] : b \in WeatherBodies}

\* None, as fetch_weather returns it
NoWeather ==
    [present |-> FALSE, description |-> "", temperature |-> 0, feels_like |-> 0,
     humidity |-> 0, wind_speed |-> 0, icon |-> ""]

\* lines 193-200 raise KeyError (or IndexError) on a missing field
SnapshotRaises(body) == ~body.hasWeather \/ ~body.hasMain \/ ~body.hasWind

\* lines 193-200; wind_speed in tenths of km/h
Snapshot(body) ==
    [present |-> TRUE,
     description |-> Capitalize(body.description),
     temperature |-> RoundHalfEven(body.temp, 10),
     feels_like |-> RoundHalfEven(body.feels_like, 10),
     humidity |-> body.humidity,
     wind_speed |-> RoundHalfEven(body.speed * 36, 10),
     icon |-> body.icon]

\* the ?lat=&lon= a client asks the weather for
WeatherCoords == {<<-15, -70>>, <<-16, -69>>}

NoWeatherStore == [at |-> -1, value |-> NoWeather]

IdleWeather ==
    [pc |-> "idle", coord |-> <<0, 0>>, result |-> NoWeather, status |-> 0,
     body |-> NoWeather, error |-> "",
     \* history of the call, for the properties
     requests |-> 0, provider |-> "none",
     fresh |-> FALSE, expect |-> NoWeather, afterReturn |-> FALSE, previous |-> NoWeather]

\* a service that takes the credential as always configured
AlwaysConfigured == FALSE

\* fetch_weather line 176: if not OPENWEATHERMAP_API_KEY
NoApiKey == ~apiKey

\* get_weather lines 262-265
StartWeather(t, coord, limit) ==
    /\ weatherReq[t].pc \in {"idle", "done"}
    /\ started < limit
    /\ started' = started + 1
    /\ weatherReq' = [weatherReq EXCEPT ![t] =
                         [IdleWeather EXCEPT !.pc = "memo_get", !.coord = coord]]
    /\ UNCHANGED <<now, ticks, apiKey, memoWeather, lastWeatherSet, lastWeatherReturn>>
    /\ UNCHANGED <<poisVars, dirVars>>

\* get_weather lines 266-269, once fetch_weather has returned `value`
WeatherResponse(r, value) ==
    IF value.present
    THEN [r EXCEPT !.pc = "done", !.result = value, !.status = 200, !.body = value]
    ELSE [r EXCEPT !.pc = "done", !.result = value, !.status = 503,
                   !.error = "No se pudo obtener la informacion del clima"]

\* error_handler lines 62-64, when fetch_weather raises
WeatherError(r) ==
    [r EXCEPT !.pc = "done", !.status = 500, !.error = "Error interno del servidor"]

\* the latest snapshot a fetch_weather call returned for the coordinate
Returned(value, t, before) == IF value.present THEN [at |-> t, value |-> value] ELSE before

\* wrapper lines 44-47 (a hit returns to get_weather), and lines 176-177 of
\* fetch_weather on a miss
WeatherMemoGet(t) ==
    LET r == weatherReq[t]
        key == MemoKey(r.coord)
        seen == [r EXCEPT !.fresh = FreshStore(lastWeatherSet[r.coord], now, WEATHER_MEMO_TTL),
                          !.expect = lastWeatherSet[r.coord].value,
                          !.afterReturn = FreshStore(lastWeatherReturn[r.coord], now,
                                                     WEATHER_MEMO_TTL),
                          !.previous = lastWeatherReturn[r.coord].value]
        hit == CacheHit(memoWeather, key, now)
    IN  /\ r.pc = "memo_get"
        /\ memoWeather' = CacheTouch(memoWeather, key)
        /\ weatherReq' = [weatherReq EXCEPT ![t] =
              IF hit THEN WeatherResponse(seen, CacheValue(memoWeather, key))
              ELSE IF NoApiKey THEN [seen EXCEPT !.pc = "memo_set", !.result = NoWeather]
              ELSE [seen EXCEPT !.pc = "request"]]
        /\ lastWeatherReturn' =
              IF hit
              THEN [lastWeatherReturn EXCEPT ![r.coord] =
                       Returned(CacheValue(memoWeather, key), now, @)]
              ELSE lastWeatherReturn
        /\ UNCHANGED <<now, ticks, started, apiKey, lastWeatherSet>>
        /\ UNCHANGED <<poisVars, dirVars>>

WeatherLabel(outcome) ==
    IF outcome.kind # "ok" THEN "transport_failure"
    ELSE IF SnapshotRaises(outcome.body) THEN "missing_field"
    ELSE "snapshot"

\* lines 188-203: the request to OpenWeatherMap
WeatherRequest(t, outcome) ==
    LET r == weatherReq[t]
        asked == [r EXCEPT !.requests = @ + 1, !.provider = WeatherLabel(outcome)]
    IN  /\ r.pc = "request"
        /\ weatherReq' = [weatherReq EXCEPT ![t] =
              IF RaisesRequestException(outcome)
              THEN \* lines 201-203
                   [asked EXCEPT !.pc = "memo_set", !.result = NoWeather]
              ELSE IF SnapshotRaises(outcome.body)
              THEN \* no except clause takes a KeyError: it reaches error_handler
                   WeatherError(asked)
              ELSE [asked EXCEPT !.pc = "memo_set", !.result = Snapshot(outcome.body)]]
        /\ UNCHANGED <<now, ticks, started, apiKey, memoWeather, lastWeatherSet,
                       lastWeatherReturn>>
        /\ UNCHANGED <<poisVars, dirVars>>

\* wrapper lines 49-50: cache[key] = result; return result (to get_weather)
WeatherMemoSet(t) ==
    LET r == weatherReq[t] IN
    /\ r.pc = "memo_set"
    /\ memoWeather' = CacheSet(memoWeather, MemoKey(r.coord), r.result, now, WEATHER_MEMO_TTL)
    /\ lastWeatherSet' = [lastWeatherSet EXCEPT ![r.coord] = [at |-> now, value |-> r.result]]
    /\ lastWeatherReturn' = [lastWeatherReturn EXCEPT ![r.coord] = Returned(r.result, now, @)]
    /\ weatherReq' = [weatherReq EXCEPT ![t] = WeatherResponse(r, r.result)]
    /\ UNCHANGED <<now, ticks, started, apiKey>>
    /\ UNCHANGED <<poisVars, dirVars>>

(***************************************************************************)
(* The /directions request threads.                                        *)
(***************************************************************************)
ParamNames == {"start_lat", "start_lon", "end_lat", "end_lon"}

\* a query parameter: not sent, sent as text float() rejects, or a number
RawParams == {"missing", "abc", "-15.84"}

\* request.args.get(name, type=float): None unless float() takes the text;
\* the number in hundredths
ParseFloat(raw) ==
    IF raw = "-15.84" THEN [none |-> FALSE, value |-> -1584]
    ELSE [none |-> TRUE, value |-> 0]

\* a check of the start point alone
MissingStart(args) == \E n \in {"start_lat", "start_lon"} : ParseFloat(args[n]).none

\* line 282: None in [start_lat, start_lon, end_lat, end_lon]
MissingParam(args) == \E n \in ParamNames : ParseFloat(args[n]).none

\* the OSRM answer: a transport failure, a non-2xx status (raise_for_status),
\* or a 2xx status; `code` is the body's "code" field, `routes` the number of
\* entries of its "routes" field; distance in metres, duration in seconds
DirectionsOutcomes ==
    {[kind |-> k, code |-> "absent", routes |-> 0, distance |-> 0, duration |-> 0] :
        k \in {"timeout", "connection_error"}}
    \cup {[kind |-> "http_error", code |-> c, routes |-> 0, distance |-> 0, duration |-> 0] :
            c \in {"absent", "NoRoute", "InvalidQuery"}}
    \cup {[kind |-> "ok", code |-> c, routes |-> 0, distance |-> 0, duration |-> 0] :
            c \in {"absent", "NoRoute", "Ok"}}
    \cup {[kind |-> "ok", code |-> "Ok", routes |-> 1, distance |-> d, duration |-> 90] :
            d \in {1234, 1235}}

IdleDirections ==
    [pc |-> "idle", args |-> [n \in ParamNames |-> "missing"], status |-> 0,
     error |-> "", distance |-> 0, duration |-> 0,
     \* history of the call, for the properties
     requests |-> 0, outcome |-> "none", code |-> "absent"]

\* get_directions lines 277-290
StartDirections(t, args, limit) ==
    /\ dirReq[t].pc \in {"idle", "done"}
    /\ started < limit
    /\ started' = started + 1
    /\ dirReq' = [dirReq EXCEPT ![t] =
          IF MissingParam(args)
          THEN [IdleDirections EXCEPT !.pc = "done", !.args = args, !.status = 400,
                                      !.error = "Faltan parametros de ubicacion"]
          ELSE [IdleDirections EXCEPT !.pc = "request", !.args = args]]
    /\ UNCHANGED <<now, ticks, apiKey, poisVars, weatherVars>>

\* get_directions lines 292-308, and error_handler for what they do not catch
DirectionsRequest(t, outcome) ==
    LET r == dirReq[t]
        asked == [r EXCEPT !.pc = "done", !.requests = @ + 1, !.outcome = outcome.kind,
                           !.code = outcome.code]
    IN  /\ r.pc = "request"
        /\ dirReq' = [dirReq EXCEPT ![t] =
              IF outcome.kind # "ok"
              THEN \* lines 306-308
                   [asked EXCEPT !.status = 503, !.error = "Error al obtener la ruta"]
              ELSE IF outcome.code = "absent" \/ (outcome.code = "Ok" /\ outcome.routes = 0)
              THEN \* data["code"] or data["routes"][0] raises: error_handler lines 62-64
                   [asked EXCEPT !.status = 500, !.error = "Error interno del servidor"]
              ELSE IF outcome.code = "Ok"
              THEN [asked EXCEPT !.status = 200,
                                 !.distance = RoundHalfEven(outcome.distance, 10),
                                 !.duration = RoundHalfEven(outcome.duration, 60)]
              ELSE [asked EXCEPT !.status = 404, !.error = "No se pudo encontrar una ruta"]]
        /\ UNCHANGED <<now, ticks, started, apiKey, poisVars, weatherVars>>

(***************************************************************************)
(* The clock, the initial state and the specifications.                    *)
(***************************************************************************)
\* the clock advances between two steps of the threads
Tick(d, limit) ==
    /\ ticks < limit
    /\ ticks' = ticks + 1
    /\ now' = now + d
    /\ UNCHANGED <<started, apiKey, poisVars, weatherVars, dirVars>>

\* the ratings random.uniform gives the elements of a response
RatingsFor(outcome) ==
    IF outcome.kind = "ok" /\ outcome.body.elements = "list"
    THEN [1..Len(outcome.body.list) -> RatingDraws]
    ELSE {<<>>}

\* the state once the module is loaded, with the API key set or not
InitWith(keys) ==
    /\ now = 0
    /\ ticks = 0
    /\ started = 0
    /\ apiKey \in keys
    /\ memoPois = <<>>
    /\ POI_CACHE = <<>>
    /\ poisReq = [t \in Threads |-> IdlePois]
    /\ lastPoiSet = [c \in AllCategories |-> NoStore]
    /\ lastMemoSet = [c \in AllCategories |-> NoStore]
    /\ memoWeather = <<>>
    /\ weatherReq = [t \in Threads |-> IdleWeather]
    /\ lastWeatherSet = [c \in WeatherCoords |-> NoWeatherStore]
    /\ lastWeatherReturn = [c \in WeatherCoords |-> NoWeatherStore]
    /\ dirReq = [t \in Threads |-> IdleDirections]

Init == InitWith(BOOLEAN)

\* concurrent /pois requests
NextPois ==
    \/ \E t \in Threads, c \in RaceCategories : StartPois(t, c, 0, <<0, 0>>, MaxRequests)
    \/ \E t \in Threads : MemoGet(t)
    \/ \E t \in Threads : PoiContains(t)
    \/ \E t \in Threads : PoiGet(t)
    \/ \E t \in Threads, o \in FewOutcomes : \E rs \in RatingsFor(o) :
           OverpassRequest(t, o, rs)
    \/ \E t \in Threads : PoiSet(t)
    \/ \E t \in Threads : MemoSet(t)
    \/ \E d \in RaceTickSteps : Tick(d, MaxTicks)

SpecPois == InitWith({TRUE}) /\ [][NextPois]_vars

\* /pois requests served one at a time, over every provider answer
NextPoisSeq ==
    \/ \E c \in RequestCategories, r \in RatingParams, u \in UserLocations :
           StartPois(1, c, r, u, SeqRequests)
    \/ MemoGet(1)
    \/ PoiContains(1)
    \/ PoiGet(1)
    \/ \E o \in OverpassOutcomes : \E rs \in RatingsFor(o) : OverpassRequest(1, o, rs)
    \/ PoiSet(1)
    \/ MemoSet(1)
    \/ \E d \in PoisTickSteps : Tick(d, SeqTicks)

SpecPoisSeq == InitWith({TRUE}) /\ [][NextPoisSeq]_vars

\* /pois requests whose lists the ranking reorders and the filter cuts
NextRank ==
    \/ \E r \in RankRatings, u \in RankLocations : StartPois(1, "hotel", r, u, SeqRequests)
    \/ MemoGet(1)
    \/ PoiContains(1)
    \/ PoiGet(1)
    \/ \E o \in RankOutcomes : \E rs \in RatingsFor(o) : OverpassRequest(1, o, rs)
    \/ PoiSet(1)
    \/ MemoSet(1)
    \/ \E d \in RankTickSteps : Tick(d, SeqTicks)

SpecRank == InitWith({TRUE}) /\ [][NextRank]_vars

\* /pois requests over every category, enough of them to fill the POI tier
NextCategories ==
    \/ \E c \in AllCategories : StartPois(1, c, 0, <<0, 0>>, CategoryRequests)
    \/ MemoGet(1)
    \/ PoiContains(1)
    \/ PoiGet(1)
    \/ \E o \in FewOutcomes : \E rs \in RatingsFor(o) : OverpassRequest(1, o, rs)
    \/ PoiSet(1)
    \/ MemoSet(1)
    \/ \E d \in RankTickSteps : Tick(d, MaxTicks)

SpecCategories == InitWith({TRUE}) /\ [][NextCategories]_vars

\* concurrent /weather requests
NextWeather ==
    \/ \E t \in Threads, c \in WeatherCoords : StartWeather(t, c, WeatherRequests)
    \/ \E t \in Threads : WeatherMemoGet(t)
    \/ \E t \in Threads, o \in WeatherOutcomes : WeatherRequest(t, o)
    \/ \E t \in Threads : WeatherMemoSet(t)
    \/ \E d \in WeatherTickSteps : Tick(d, MaxTicks)

SpecWeather == Init /\ [][NextWeather]_vars

\* /directions requests
NextDirections ==
    \/ \E t \in Threads, args \in [ParamNames -> RawParams] :
           StartDirections(t, args, MaxRequests)
    \/ \E t \in Threads, o \in DirectionsOutcomes : DirectionsRequest(t, o)

SpecDirections == InitWith({TRUE}) /\ [][NextDirections]_vars

\* the whole service
Next == NextPois \/ NextWeather \/ NextDirections

Spec == Init /\ [][Next]_vars

(***************************************************************************)
(* Properties.                                                             *)
(***************************************************************************)

\* C1 as stated: a fetch_pois(c) call made less than 24 hours after an earlier
\* call returned returns the same list as that call and asks the provider
\* nothing (the earlier call is the one that last stored its result).
C1_TwoCallsAgree ==
    \A t \in Threads :
        LET r == poisReq[t] IN
        (ValidCategory(r.category) /\ r.afterCall) =>
            /\ r.requests = 0
            /\ (r.returned => r.result = r.memoExpect)

\* C1 amended: a fetch_pois(c) call for a valid category asks the provider
\* nothing when it tests POI_CACHE less than 24 hours after the latest store of
\* a list for c there, and returns that list when it reads it then; a call that
\* looks the memo up less than 1 hour after the latest store there for c
\* returns the stored value and asks the provider nothing.
C1_FreshStoreServes ==
    \A t \in Threads :
        LET r == poisReq[t] IN
        ValidCategory(r.category) =>
            /\ (r.poiFresh => r.requests = 0)
            /\ (r.readFresh => r.pc # "done" \/ (r.returned /\ r.result = r.poiExpect))
            /\ (r.memoFresh => r.requests = 0 /\ r.returned /\ r.result = r.memoExpect)

\* a call served by POI_CACHE once the memo entry has expired
C1_Witness ==
    \E t \in Threads :
        LET r == poisReq[t] IN
        /\ r.pc = "done" /\ ValidCategory(r.category)
        /\ r.readFresh /\ ~r.memoFresh /\ r.returned
        /\ r.result.pois # <<>> /\ r.requests = 0
        /\ now - r.result.born > POIS_MEMO_TTL

\* C2: no fetch_pois call returns a list whose age since its provider fetch is
\* 24 hours or more.
C2_PoiExpiry ==
    \A t \in Threads : poisReq[t].returned => poisReq[t].age < POI_TTL

\* C3: two fetch_pois calls for the same category that both missed and both
\* populated the caches return the same list.
C3_BenignRace ==
    \A t, u \in Threads :
        LET r == poisReq[t]
            q == poisReq[u]
        IN  (/\ r.pc = "done" /\ q.pc = "done"
             /\ r.category = q.category
             /\ r.raced /\ q.raced /\ r.populated /\ q.populated)
            => r.result = q.result

\* C4: for a category outside the enumeration, fetch_pois returns the empty
\* list and asks the provider nothing.
C4_InvalidCategory ==
    \A t \in Threads :
        LET r == poisReq[t] IN
        (r.pc # "idle" /\ r.category \notin {"hotel", "restaurant", "attraction"}) =>
            /\ r.requests = 0
            /\ r.pc \in {"memo_get", "memo_set", "done"}
            /\ r.result.pois = <<>>
            /\ (r.pc = "done" => r.returned /\ r.status = 200 /\ r.routes = <<>>)

\* an invalid category answered while the caches hold a list for a valid one
C4_Witness ==
    \E t \in Threads :
        LET r == poisReq[t] IN
        /\ r.pc = "done" /\ r.category = "casino" /\ r.returned
        /\ CacheContains(POI_CACHE, PoiCacheKey("hotel"), now)
        /\ CacheValue(POI_CACHE, PoiCacheKey("hotel")).pois # <<>>

\* C5: when the provider request fails or the response is malformed,
\* fetch_pois returns the empty list and /pois answers 200 with [].
C5_ProviderTrouble ==
    \A t \in Threads :
        LET r == poisReq[t] IN
        (r.pc = "done" /\ ValidCategory(r.category)
         /\ r.provider \in {"transport_failure", "not_an_object", "no_elements",
                            "elements_not_a_list"}) =>
            /\ r.returned /\ r.result.pois = <<>>
            /\ r.status = 200 /\ r.routes = <<>>

\* C6: on a transport failure or a response lacking a field, fetch_weather
\* returns None and /weather answers 503, never 500.
C6_WeatherNeverRaises ==
    \A t \in Threads :
        LET r == weatherReq[t] IN
        (r.pc = "done" /\ r.provider \in {"transport_failure", "missing_field"}) =>
            /\ ~r.result.present
            /\ r.status = 503

\* C7: every entry of a list fetch_pois returns for a valid category has a
\* non-empty name and a rating within [3.5, 5.0].
C7_NamedAndRated ==
    \A t \in Threads :
        LET r == poisReq[t] IN
        (r.returned /\ ValidCategory(r.category)) =>
            \A i \in 1..Len(r.result.pois) :
                /\ r.result.pois[i].name # ""
                /\ RATING_MIN <= r.result.pois[i].rating
                /\ r.result.pois[i].rating <= RATING_MAX

\* C8: with the four coordinates present, /directions answers 404 whenever the
\* provider's answer carries a code other than "Ok", 503 whenever the request
\* fails in transport, and 200 only when the code is "Ok".
C8_StatusMapping ==
    \A t \in Threads :
        LET r == dirReq[t] IN
        (r.pc = "done" /\ r.requests > 0) =>
            /\ (r.code \notin {"Ok", "absent"} => r.status = 404)
            /\ (r.outcome \in {"timeout", "connection_error"} => r.status = 503)
            /\ (r.status = 200 => r.code = "Ok")

\* C9: when one of the four coordinates is missing or is no number,
\* /directions answers 400 with an error payload and asks the provider nothing.
C9_MissingCoordinate ==
    \A t \in Threads :
        LET r == dirReq[t] IN
        (r.pc # "idle" /\ \E n \in ParamNames : r.args[n] \in {"missing", "abc"}) =>
            /\ r.pc = "done"
            /\ r.status = 400 /\ r.error # ""
            /\ r.requests = 0

\* /directions without end_lat, the other three coordinates given
C9_Witness ==
    \E t \in Threads :
        LET r == dirReq[t] IN
        /\ r.pc = "done" /\ r.status = 400
        /\ r.args["end_lat"] = "missing"
        /\ \A n \in ParamNames \ {"end_lat"} : r.args[n] = "-15.84"

\* C10 as stated: a fetch_weather call for a coordinate made less than 5
\* minutes after a call for it returned a snapshot returns that snapshot and
\* asks the provider nothing.
C10_AfterSnapshot ==
    \A t \in Threads :
        LET r == weatherReq[t] IN
        r.afterReturn =>
            /\ r.requests = 0
            /\ (r.pc = "done" => r.result = r.previous)

\* C10 amended: a fetch_weather call for a coordinate that looks the memo up
\* less than 5 minutes after the latest store there for that coordinate returns
\* the stored result and asks the provider nothing, whatever other coordinates
\* were asked for in between.
C10_FreshStoreServes ==
    \A t \in Threads :
        LET r == weatherReq[t] IN
        r.fresh =>
            /\ r.pc = "done"
            /\ r.requests = 0
            /\ r.result = r.expect

\* a snapshot served again 299 seconds after its fetch, another coordinate
\* having been fetched in between
C10_Witness ==
    \E t \in Threads :
        LET r == weatherReq[t] IN
        /\ r.pc = "done" /\ r.fresh /\ r.result.present /\ r.status = 200
        /\ now >= lastWeatherSet[r.coord].at + WEATHER_MEMO_TTL - 1
        /\ \E c \in WeatherCoords \ {r.coord} :
               lastWeatherSet[c].at >= lastWeatherSet[r.coord].at

\* C11: with no weather-provider credential configured, every /weather request,
\* for every coordinate and whatever the memo holds, answers 503 and asks the
\* provider nothing.
C11_NoCredential ==
    ~apiKey =>
        \A t \in Threads :
            LET r == weatherReq[t] IN
            /\ r.requests = 0
            /\ r.pc # "request"
            /\ ~r.result.present
            /\ (r.pc = "done" => r.status = 503 /\ r.error # "")

\* without a credential, one request answered 503 from the memo (the None a
\* previous request stored) and one answered 503 for the other coordinate
C11_Witness ==
    /\ ~apiKey
    /\ \E t, u \in Threads :
           /\ weatherReq[t].pc = "done" /\ weatherReq[t].status = 503
           /\ weatherReq[t].fresh
           /\ weatherReq[u].pc = "done" /\ weatherReq[u].status = 503
           /\ weatherReq[u].coord # weatherReq[t].coord

\* C12: on every endpoint an unexpected internal fault is answered 500 with
\* the same fixed body, whatever the exception and its message.
C12_Generic500 ==
    \A t \in Threads :
        /\ (poisReq[t].status = 500 => poisReq[t].error = "Error interno del servidor")
        /\ (weatherReq[t].status = 500 => weatherReq[t].error = "Error interno del servidor")
        /\ (dirReq[t].status = 500 => dirReq[t].error = "Error interno del servidor")

\* C13: the output of calculate_routes is sorted non-decreasing by distance,
\* entries of equal distance keep the order they had in the input list, and
\* every input POI whose distance computation succeeds appears exactly once;
\* those whose computation fails are left out.
C13_RoutesOrdering ==
    \A t \in Threads :
        LET r == poisReq[t]
            input == FilterByRating(r.result.pois, r.rating)
            IndexOf(poi) == CHOOSE k \in 1..Len(input) : input[k] = poi
        IN  (r.pc = "done" /\ r.returned) =>
            /\ \A i \in 1..Len(r.routes) :
                   \E k \in 1..Len(input) : r.routes[i].poi = input[k]
            /\ \A i, j \in 1..Len(r.routes) :
                   i < j =>
                       /\ r.routes[i].distance <= r.routes[j].distance
                       /\ (r.routes[i].distance = r.routes[j].distance
                              => IndexOf(r.routes[i].poi) < IndexOf(r.routes[j].poi))
            /\ \A k \in 1..Len(input) :
                   Cardinality({i \in 1..Len(r.routes) : r.routes[i].poi = input[k]})
                       = IF DistanceRaises(r.user, input[k].location) THEN 0 ELSE 1

\* a ranking that moved the last POI to the front, kept two POIs of equal
\* distance in input order and left one POI out
C13_Witness ==
    \E t \in Threads :
        LET r == poisReq[t]
            input == FilterByRating(r.result.pois, r.rating)
        IN  /\ r.pc = "done" /\ r.returned
            /\ Len(input) = 4 /\ Len(r.routes) = 3
            /\ r.routes[1].poi = input[4]
            /\ r.routes[2].distance = r.routes[3].distance
            /\ r.routes[2].poi = input[1] /\ r.routes[3].poi = input[3]

\* C14 as stated: the /pois response contains exactly the POIs of
\* fetch_pois(category) with rating >= r (all of them for the default 0), and
\* it is [] with status 200 when none qualifies.
C14_ExactlyQualifying ==
    \A t \in Threads :
        LET r == poisReq[t]
            qualifying == {k \in 1..Len(r.result.pois) :
                              r.result.pois[k].rating >= r.rating}
        IN  (r.pc = "done" /\ r.returned) =>
            /\ r.status = 200
            /\ Len(r.routes) = Cardinality(qualifying)
            /\ \A k \in qualifying :
                   \E i \in 1..Len(r.routes) : r.routes[i].poi = r.result.pois[k]

\* C14 amended: the /pois response contains, each once, exactly the POIs of
\* fetch_pois(category) with rating >= r whose distance from the user's
\* location can be computed (all of those for the default 0), and it is []
\* with status 200 when there is none.
C14_QualifyingAndLocated ==
    \A t \in Threads :
        LET r == poisReq[t]
            located == {k \in 1..Len(r.result.pois) :
                           /\ r.result.pois[k].rating >= r.rating
                           /\ ~DistanceRaises(r.user, r.result.pois[k].location)}
        IN  (r.pc = "done" /\ r.returned) =>
            /\ r.status = 200
            /\ Len(r.routes) = Cardinality(located)
            /\ \A k \in located :
                   \E i \in 1..Len(r.routes) : r.routes[i].poi = r.result.pois[k]
            /\ \A i \in 1..Len(r.routes) :
                   \E k \in located : r.routes[i].poi = r.result.pois[k]

\* a threshold of 5.0 that a POI rated 5.0 passes and a POI rated 3.5 does not
C14_Witness ==
    \E t \in Threads :
        LET r == poisReq[t] IN
        /\ r.pc = "done" /\ r.returned /\ r.rating = RATING_MAX
        /\ r.routes # <<>>
        /\ \A i \in 1..Len(r.routes) : r.routes[i].poi.rating = RATING_MAX
        /\ \E k \in 1..Len(r.result.pois) :
               /\ r.result.pois[k].rating < RATING_MAX
               /\ ~DistanceRaises(r.user, r.result.pois[k].location)

\* C15: once a fetch_pois(c) call for a valid category has returned the empty
\* list because the provider request failed, no cache tier holds an entry for
\* c, and a call that finds the value of such a failed call as the latest one
\* stored asks the provider again.
C15_FailureNotRemembered ==
    \A t \in Threads :
        LET r == poisReq[t] IN
        (r.pc = "done" /\ ValidCategory(r.category)) =>
            /\ (r.provider = "transport_failure" =>
                   /\ ~CacheContains(memoPois, MemoKey(<<r.category>>), now)
                   /\ ~CacheContains(POI_CACHE, PoiCacheKey(r.category), now))
            /\ (r.memoFresh /\ r.memoExpect = EmptyList => r.requests > 0)

\* C16: no /pois request is answered 500 because of a lookup in POI_CACHE: an
\* entry that the membership test found and that expired before the read is a
\* miss, and fetch_pois still returns a list.
C16_CheckThenRead ==
    \A t \in Threads :
        LET r == poisReq[t] IN
        (r.pc = "done" /\ r.requests = 0) => r.returned /\ r.status = 200

\* C17: every entry fetch_pois returns was made from a node or a way of the
\* response, and its location is that node's coordinate or the mean of the
\* coordinates of the way's member nodes present in the response.
C17_OwnLocation ==
    \A t \in Threads :
        LET r == poisReq[t] IN
        r.returned =>
            \A i \in 1..Len(r.result.pois) :
                LET poi == r.result.pois[i] IN
                \E l \in {ElementsA, ElementsB, ElementsC, ElementsD} :
                    \E k \in 1..Len(l) :
                        LET e == l[k]
                            members == MemberNodes(l, e)
                        IN  /\ e.id = poi.element
                            /\ \/ /\ e.type = "node"
                                  /\ poi.location = Location(e.lat, e.lon, 1)
                               \/ /\ e.type = "way"
                                  /\ members # <<>>
                                  /\ poi.location = Location(SumLat(members), SumLon(members),
                                                             Len(members))

\* C18: ranking and filtering leave the caches unchanged: every list a cache
\* tier holds is the list that was last stored there for its category, entry
\* for entry, whatever thresholds and user locations the requests answered
\* since then carried; so a request served from the caches is given every POI
\* that was stored.
C18_CachesUnchanged ==
    /\ \A i \in 1..Len(POI_CACHE) :
           POI_CACHE[i].value = lastPoiSet[POI_CACHE[i].key[2]].value
    /\ \A i \in 1..Len(memoPois) :
           memoPois[i].value = lastMemoSet[memoPois[i].key[1][1]].value
    /\ \A t \in Threads :
           LET r == poisReq[t] IN
           (r.pc = "done" /\ r.returned /\ r.requests = 0 /\ ValidCategory(r.category)) =>
               r.result \in {lastPoiSet[r.category].value, lastMemoSet[r.category].value}

\* a request with threshold 4.5 served from the caches, whose response left
\* POIs out, while both tiers still hold the whole list
C18_Witness ==
    \E t \in Threads :
        LET r == poisReq[t] IN
        /\ r.pc = "done" /\ r.returned /\ r.requests = 0
        /\ r.rating > 0 /\ r.routes # <<>>
        /\ Len(r.routes) < Len(r.result.pois)
        /\ CacheContains(POI_CACHE, PoiCacheKey(r.category), now)
        /\ CacheValue(POI_CACHE, PoiCacheKey(r.category)) = r.result
        /\ CacheContains(memoPois, MemoKey(<<r.category>>), now)
        /\ CacheValue(memoPois, MemoKey(<<r.category>>)) = r.result

\* C19: POI_CACHE always holds only keys 'pois_' + c for a valid category c,
\* each once, hence at most 3 entries, and each value is a list made from a
\* provider response; only a request for a valid category changes the tier,
\* by reading it or by storing the list of a fetch that succeeded, and a store
\* removes nothing but expired entries and the entry it replaces.
C19_PoiTier ==
    /\ [](/\ \A i \in 1..Len(POI_CACHE) :
               /\ \E c \in QueryCategories : POI_CACHE[i].key = PoiCacheKey(c)
               /\ POI_CACHE[i].value.born >= 0
               /\ \A j \in 1..Len(POI_CACHE) :
                      POI_CACHE[i].key = POI_CACHE[j].key => i = j
          /\ Len(POI_CACHE) <= Cardinality(QueryCategories)
          /\ Len(POI_CACHE) < CACHE_MAXSIZE)
    /\ [][POI_CACHE' # POI_CACHE =>
             \E t \in Threads :
                 LET r == poisReq[t] IN
                 /\ ValidCategory(r.category)
                 /\ poisReq'[t].pc = "memo_set"
                 /\ \/ r.pc = "poi_get"
                    \/ r.pc = "poi_set" /\ r.provider \in {"elements", "no_elements"}
                 /\ \A i \in 1..Len(POI_CACHE) :
                        (now < POI_CACHE[i].expires
                         /\ POI_CACHE[i].key # PoiCacheKey(r.category))
                        => \E j \in 1..Len(POI_CACHE') : POI_CACHE'[j] = POI_CACHE[i]]_vars

\* the tier holds its three entries when a request for an invalid category
\* has been answered
C19_Witness ==
    /\ Len(POI_CACHE) = 3
    /\ \A c \in QueryCategories : CacheContains(POI_CACHE, PoiCacheKey(c), now)
    /\ \E t \in Threads :
           /\ poisReq[t].pc = "done" /\ poisReq[t].returned
           /\ ~ValidCategory(poisReq[t].category)

====
